---- MODULE Spec2Model ----
(***************************************************************************)
(* The transaction journal of lib/cache/journal.js (lf.cache.Journal).     *)
(*                                                                         *)
(* A journal validates every mutation against its scope and the primary    *)
(* key of the table, applies it at once to the shared row cache and to     *)
(* the indices of the table, and accumulates a per-table diff that a       *)
(* rollback reverses.  The row cache, the index store, the rows, the table *)
(* schemas and lf.cache.TableDiff are collaborators whose code lies        *)
(* outside journal.js; they are modelled from their described contracts.   *)
(***************************************************************************)
EXTENDS Integers, Sequences, FiniteSets, TLC

(***************************************************************************)
(* Bounds of the model.                                                    *)
(***************************************************************************)
\* Row-ids handed out to new rows are 1..MaxRowId.
MaxRowId == 3
\* Primary-key values are 1..MaxKey.
MaxKey == 3
\* Longest batch of rows passed to one call.
MaxBatch == 2
\* Calls explored on a journal after it is terminated.
MaxLate == 1
\* Largest number of rows in the store when the journal is created.
MaxInit == 2
\* Longest list of key ranges passed to one getIndexRange.
MaxRanges == 2

RowIds == 1..MaxRowId
Keys == 1..MaxKey
Names == {"a", "b"}

(***************************************************************************)
(* Schema of the database the journal runs against: T1 {id PK, name} with  *)
(* an index on name, T2 {id PK}, and T3 {name} without a primary key.      *)
(***************************************************************************)
Tables == {"T1", "T2", "T3"}

\* An index is named by its table and the column it covers.
RowIdIndexName(t) == <<t, "#">>

\* lf.schema.Table.getConstraint().getPrimaryKey(): the primary-key index
\* schema, a sequence of length at most one (<<>> stands for null).
getPrimaryKey(t) == IF t \in {"T1", "T2"} THEN << <<t, "pk">> >> ELSE <<>>

\* lf.schema.Table.getIndices(): the declared indices, the primary key's
\* included, the row-id index excluded.
getIndices(t) ==
  CASE t = "T1" -> << <<"T1", "pk">>, <<"T1", "name">> >>
    [] t = "T2" -> << <<"T2", "pk">> >>
    [] OTHER -> <<>>

IndexNames ==
  {<<"T1", "pk">>, <<"T1", "name">>, <<"T2", "pk">>}
    \cup {RowIdIndexName(t) : t \in Tables}

\* The absent row (null).
NULL == [null |-> TRUE]

\* The payload a row of table t can carry.
Payloads(t) ==
  IF getPrimaryKey(t) = <<>>
    THEN {[name |-> n] : n \in Names}
  ELSE IF t = "T2"
    THEN {[pk |-> k] : k \in Keys}
    ELSE {[pk |-> k, name |-> n] : k \in Keys, n \in Names}

\* A row: a payload with a row-id.
MkRow(id, p) == [f \in DOMAIN p \cup {"id"} |-> IF f = "id" THEN id ELSE p[f]]

\* lf.Row.setRowId
setRowId(row, id) == [row EXCEPT !.id = id]

\* lf.Row.keyOfIndex: the key of the row in the named index.
keyOfIndex(row, indexName) ==
  CASE indexName[2] = "#" -> row.id
    [] indexName[2] = "pk" -> row.pk
    [] indexName[2] = "name" -> row.name

(***************************************************************************)
(* Finite maps (goog.structs.Map) as functions with a finite domain.       *)
(***************************************************************************)
EmptyMap == [x \in {} |-> x]
MapSet(m, k, v) == [x \in DOMAIN m \cup {k} |-> IF x = k THEN v ELSE m[x]]
MapRemove(m, k) == [x \in DOMAIN m \ {k} |-> m[x]]

Min(S) == CHOOSE x \in S : \A y \in S : x <= y

RECURSIVE SetToSeq(_)
\* The elements of a finite set of integers in ascending order.
SetToSeq(S) == IF S = {} THEN <<>> ELSE <<Min(S)>> \o SetToSeq(S \ {Min(S)})

\* The values of a map in ascending key order.
MapValues(m) == LET ks == SetToSeq(DOMAIN m) IN [i \in 1..Len(ks) |-> m[ks[i]]]

Range(s) == {s[i] : i \in DOMAIN s}

(***************************************************************************)
(* lf.cache.TableDiff: three collections keyed by row-id, and the merge    *)
(* table.  invalid records that a case the merge table marks invalid was   *)
(* hit; the collections are then left as they were.                        *)
(***************************************************************************)
EmptyDiff ==
  [added |-> EmptyMap, modified |-> EmptyMap, deleted |-> EmptyMap,
   invalid |-> FALSE]

TableDiff_add(d, row) ==
  LET id == row.id IN
  IF id \in DOMAIN d.added \cup DOMAIN d.modified
    THEN [d EXCEPT !.invalid = TRUE]
  ELSE IF id \in DOMAIN d.deleted
    THEN IF d.deleted[id] = row
           THEN [d EXCEPT !.deleted = MapRemove(d.deleted, id)]
           ELSE [d EXCEPT !.deleted = MapRemove(d.deleted, id),
                          !.modified = MapSet(d.modified, id, <<d.deleted[id], row>>)]
  ELSE [d EXCEPT !.added = MapSet(d.added, id, row)]

TableDiff_modify(d, old, new) ==
  LET id == new.id IN
  IF id \in DOMAIN d.deleted
    THEN [d EXCEPT !.invalid = TRUE]
  ELSE IF id \in DOMAIN d.added
    THEN [d EXCEPT !.added = MapSet(d.added, id, new)]
  ELSE IF id \in DOMAIN d.modified
    THEN [d EXCEPT !.modified = MapSet(d.modified, id, <<d.modified[id][1], new>>)]
  ELSE [d EXCEPT !.modified = MapSet(d.modified, id, <<old, new>>)]

TableDiff_delete(d, row) ==
  LET id == row.id IN
  IF id \in DOMAIN d.deleted
    THEN [d EXCEPT !.invalid = TRUE]
  ELSE IF id \in DOMAIN d.added
    THEN [d EXCEPT !.added = MapRemove(d.added, id)]
  ELSE IF id \in DOMAIN d.modified
    THEN [d EXCEPT !.modified = MapRemove(d.modified, id),
                   !.deleted = MapSet(d.deleted, id, d.modified[id][1])]
  ELSE [d EXCEPT !.deleted = MapSet(d.deleted, id, row)]

RECURSIVE AddAll(_, _)
AddAll(d, rows) ==
  IF rows = <<>> THEN d ELSE AddAll(TableDiff_add(d, Head(rows)), Tail(rows))

RECURSIVE ModifyAll(_, _)
ModifyAll(d, mods) ==
  IF mods = <<>> THEN d
  ELSE ModifyAll(TableDiff_modify(d, Head(mods)[1], Head(mods)[2]), Tail(mods))

RECURSIVE DeleteAll(_, _)
DeleteAll(d, rows) ==
  IF rows = <<>> THEN d ELSE DeleteAll(TableDiff_delete(d, Head(rows)), Tail(rows))

\* Fold other into d, entry by entry, by the merge table.
TableDiff_merge(d, other) ==
  LET d0 == [d EXCEPT !.invalid = d.invalid \/ other.invalid]
      d1 == AddAll(d0, MapValues(other.added))
      d2 == ModifyAll(d1, MapValues(other.modified))
  IN DeleteAll(d2, MapValues(other.deleted))

\* The inverse diff: added and deleted swapped, each modification swapped.
TableDiff_getReverse(d) ==
  [added |-> d.deleted,
   deleted |-> d.added,
   modified |-> [id \in DOMAIN d.modified |-> <<d.modified[id][2], d.modified[id][1]>>],
   invalid |-> d.invalid]

(***************************************************************************)
(* lf.cache.Cache: row-id -> latest row image.                             *)
(***************************************************************************)
\* cache.get([id])[0]: the row, or null.
Cache_get(c, id) == IF id \in DOMAIN c THEN c[id] ELSE NULL
Cache_set(c, row) == MapSet(c, row.id, row)
Cache_remove(c, id) == MapRemove(c, id)

(***************************************************************************)
(* lf.index.Index: a set of (key, row-id) pairs.                           *)
(***************************************************************************)
\* index.get(key): the row-ids under the key, in ascending order (the first
\* one is what findExistingRowIdInPkIndex_ returns).
Index_get(index, key) == SetToSeq({p[2] : p \in {q \in index : q[1] = key}})
Index_set(index, key, id) == index \cup {<<key, id>>}
Index_remove(index, key, id) == index \ {<<key, id>>}
\* index.getRange() without a range: every row-id of the index.
Index_getRange(index) == SetToSeq({p[2] : p \in index})

\* lf.index.KeyRange: the keys from..to, both ends included.
KeyRange(from, to) == [from |-> from, to |-> to]
InKeyRange(key, keyRange) == keyRange.from <= key /\ key <= keyRange.to

\* The first pair of a set of (key, row-id) pairs with integer keys, in key
\* order and, under one key, in row-id order.
FirstPair(S) ==
  CHOOSE p \in S : \A q \in S : p[1] < q[1] \/ (p[1] = q[1] /\ p[2] <= q[2])

RECURSIVE PairsToIds(_)
PairsToIds(S) ==
  IF S = {} THEN <<>> ELSE <<FirstPair(S)[2]>> \o PairsToIds(S \ {FirstPair(S)})

\* index.getRange(keyRange): the row-ids whose key lies in the range, in key
\* order.
Index_getRangeIn(index, keyRange) ==
  PairsToIds({p \in index : InKeyRange(p[1], keyRange)})

(***************************************************************************)
(* goog.structs.Set, as the sequence of its values in insertion order.     *)
(***************************************************************************)
RECURSIVE Set_addAll(_, _)
Set_addAll(set, values) ==
  IF values = <<>> THEN set
  ELSE Set_addAll(IF Head(values) \in Range(set) THEN set ELSE Append(set, Head(values)),
                  Tail(values))

(***************************************************************************)
(* The state.                                                              *)
(***************************************************************************)
VARIABLES
  cache,        \* lf.cache.Cache, shared: row-id -> row
  indexStore,   \* lf.index.IndexStore, shared: index name -> index
  scope,        \* scope_ of each journal: the names of its tables
  tableDiffs,   \* tableDiffs_ of each journal: <<table name, TableDiff>>
                \* entries in insertion order
  terminated,   \* terminated_ of each journal
  nextId,       \* the row-id the next created row gets
  cache0,       \* the row cache when the journals were created
  indexStore0,  \* the index store when the journals were created
  late,         \* calls made so far on a terminated journal
  pre,          \* the cache, index store, diffs and flags before the call
  call          \* the call that has just ended (journal, operation,
                \* arguments, outcome), until its caller takes the outcome

vars ==
  <<cache, indexStore, scope, tableDiffs, terminated, nextId, cache0,
    indexStore0, late, pre, call>>

Journals == DOMAIN terminated

(***************************************************************************)
(* A call runs on a record s of what it can reach: the shared cache and    *)
(* index store, and the fields of its journal.  s.exc names the exception  *)
(* in flight ("none" while the call is running normally): a statement      *)
(* reached with an exception in flight is skipped, and what was written    *)
(* before the throw stays written.  s.applied is the diff the call handed  *)
(* to applyTableDiff_.                                                     *)
(***************************************************************************)
Throw(s, e) == [s EXCEPT !.exc = e]
Running(s) == s.exc = "none"

\* goog.structs.Map.get(name, null) on tableDiffs_.
Diffs_get(diffs, name) ==
  IF \E i \in DOMAIN diffs : diffs[i][1] = name
    THEN (diffs[CHOOSE i \in DOMAIN diffs : diffs[i][1] = name])[2]
    ELSE NULL

\* goog.structs.Map.set(name, diff) on tableDiffs_: a new key goes last.
Diffs_set(diffs, name, diff) ==
  IF \E i \in DOMAIN diffs : diffs[i][1] = name
    THEN [i \in DOMAIN diffs |-> IF diffs[i][1] = name THEN <<name, diff>> ELSE diffs[i]]
    ELSE Append(diffs, <<name, diff>>)

Diffs_names(diffs) == {diffs[i][1] : i \in DOMAIN diffs}

getDiff(s) == s.tableDiffs

RECURSIVE getIndexRange_concatenating(_, _, _)
\* A getIndexRange that collects the row-ids of the ranges in an array.
getIndexRange_concatenating(s, indexName, keyRanges) ==
  IF keyRanges = <<>> THEN <<>>
  ELSE Index_getRangeIn(s.indexStore[indexName], Head(keyRanges))
         \o getIndexRange_concatenating(s, indexName, Tail(keyRanges))

RECURSIVE getIndexRange(_, _, _)
\* The values of the set rowIds after keyRanges.forEach, the ranges taken
\* from the last one back: rowIds.addAll per range, in the order of the
\* ranges.
getIndexRange(s, indexName, keyRanges) ==
  IF keyRanges = <<>> THEN <<>>
  ELSE Set_addAll(getIndexRange(s, indexName, SubSeq(keyRanges, 1, Len(keyRanges) - 1)),
                  Index_getRangeIn(s.indexStore[indexName], keyRanges[Len(keyRanges)]))

\* getTableRows(tableName) without row-ids: the cache's answer for every
\* row-id of the row-id index (null where the cache has no row).
getTableRows(s, tableName) ==
  LET rowIds == Index_getRange(s.indexStore[RowIdIndexName(tableName)])
  IN [i \in DOMAIN rowIds |-> Cache_get(s.cache, rowIds[i])]

\* A scope check that lets every table of the schema through.
checkScope_anyTable(s, table) ==
  IF ~Running(s) THEN s
  ELSE IF table \notin Tables THEN Throw(s, "SCOPE_ERROR")
  ELSE s

checkScope_(s, table) ==
  IF ~Running(s) THEN s
  ELSE IF table \notin s.scope THEN Throw(s, "SCOPE_ERROR")
  ELSE s

\* The row-id of a row holding the primary key of row, as a sequence of
\* length at most one (<<>> stands for null).
findExistingRowIdInPkIndex_(s, table, row) ==
  LET pkIndexSchema == getPrimaryKey(table) IN
  IF pkIndexSchema = <<>> THEN <<>>
  ELSE LET pkIndexName == pkIndexSchema[1]
           primaryKey == keyOfIndex(row, pkIndexName)
           rowIds == Index_get(s.indexStore[pkIndexName], primaryKey)
       IN IF Len(rowIds) = 0 THEN <<>> ELSE <<rowIds[1]>>

\* An existence check that looks at the first row of the batch only.
checkPrimaryKeyExistence_firstRowOnly(s, table, rows) ==
  IF ~Running(s) THEN s
  ELSE IF getPrimaryKey(table) = <<>> THEN s
  ELSE IF rows # <<>> /\ findExistingRowIdInPkIndex_(s, table, rows[1]) # <<>>
    THEN Throw(s, "CONSTRAINT")
  ELSE s

checkPrimaryKeyExistence_(s, table, rows) ==
  IF ~Running(s) THEN s
  ELSE IF getPrimaryKey(table) = <<>> THEN s
  ELSE IF \E i \in DOMAIN rows : findExistingRowIdInPkIndex_(s, table, rows[i]) # <<>>
    THEN Throw(s, "CONSTRAINT")
  ELSE s

checkPrimaryKeysUnique_(s, table, rows) ==
  IF ~Running(s) THEN s
  ELSE LET pkIndexSchema == getPrimaryKey(table) IN
    IF pkIndexSchema = <<>> THEN s
    ELSE LET primaryKeys == {keyOfIndex(rows[i], pkIndexSchema[1]) : i \in DOMAIN rows}
         IN IF Cardinality(primaryKeys) < Len(rows) THEN Throw(s, "CONSTRAINT") ELSE s

\* An update check without the test of the batch length.
checkPrimaryKeyUpdate_existenceOnly(s, table, rows) ==
  IF ~Running(s) THEN s
  ELSE LET primaryKeyModified ==
             \E i \in DOMAIN rows :
               findExistingRowIdInPkIndex_(s, table, rows[i]) # <<rows[i].id>>
       IN IF ~primaryKeyModified THEN s
          ELSE checkPrimaryKeyExistence_(s, table, <<rows[1]>>)

checkPrimaryKeyUpdate_(s, table, rows) ==
  IF ~Running(s) THEN s
  ELSE LET primaryKeyModified ==
             \E i \in DOMAIN rows :
               findExistingRowIdInPkIndex_(s, table, rows[i]) # <<rows[i].id>>
       IN IF ~primaryKeyModified THEN s
          ELSE IF Len(rows) > 1 THEN Throw(s, "CONSTRAINT")
          ELSE checkPrimaryKeyExistence_(s, table, <<rows[1]>>)

\* One (now, then) pair of the snapshot against one index.
IndexApplyPair(index, indexName, now, then) ==
  LET keysDiffer ==
        IF now = NULL \/ then = NULL
          THEN (now = NULL) # (then = NULL)
          ELSE keyOfIndex(now, indexName) # keyOfIndex(then, indexName)
      removed ==
        IF then # NULL
          THEN Index_remove(index, keyOfIndex(then, indexName), then.id)
          ELSE index
  IN IF ~keysDiffer THEN index
     ELSE IF now # NULL
       THEN Index_set(removed, keyOfIndex(now, indexName), now.id)
       ELSE removed

RECURSIVE IndexApplySnapshot(_, _, _)
IndexApplySnapshot(index, indexName, snapshot) ==
  IF snapshot = <<>> THEN index
  ELSE IndexApplySnapshot(
         IndexApplyPair(index, indexName, Head(snapshot)[1], Head(snapshot)[2]),
         indexName, Tail(snapshot))

\* An updateTableIndices_ that keeps one row-id index for all tables: it
\* applies the diff to the row-id index of every table.
updateTableIndices_allRowIdIndices(s, table, diff) ==
  IF ~Running(s) THEN s
  ELSE LET deleted == MapValues(diff.deleted)
           modified == MapValues(diff.modified)
           added == MapValues(diff.added)
           snapshot ==
             [i \in DOMAIN deleted |-> <<NULL, deleted[i]>>]
               \o [i \in DOMAIN modified |-> <<modified[i][2], modified[i][1]>>]
               \o [i \in DOMAIN added |-> <<added[i], NULL>>]
           indices == Range(getIndices(table)) \cup {RowIdIndexName(t) : t \in Tables}
       IN [s EXCEPT !.indexStore =
             [n \in IndexNames |->
                IF n \in indices
                  THEN IndexApplySnapshot(s.indexStore[n], n, snapshot)
                  ELSE s.indexStore[n]]]

\* An updateTableIndices_ that leaves the row-id index of the table out.
updateTableIndices_declaredOnly(s, table, diff) ==
  IF ~Running(s) THEN s
  ELSE LET deleted == MapValues(diff.deleted)
           modified == MapValues(diff.modified)
           added == MapValues(diff.added)
           snapshot ==
             [i \in DOMAIN deleted |-> <<NULL, deleted[i]>>]
               \o [i \in DOMAIN modified |-> <<modified[i][2], modified[i][1]>>]
               \o [i \in DOMAIN added |-> <<added[i], NULL>>]
           indices == Range(getIndices(table))
       IN [s EXCEPT !.indexStore =
             [n \in IndexNames |->
                IF n \in indices
                  THEN IndexApplySnapshot(s.indexStore[n], n, snapshot)
                  ELSE s.indexStore[n]]]

updateTableIndices_(s, table, diff) ==
  IF ~Running(s) THEN s
  ELSE LET deleted == MapValues(diff.deleted)
           modified == MapValues(diff.modified)
           added == MapValues(diff.added)
           snapshot ==
             [i \in DOMAIN deleted |-> <<NULL, deleted[i]>>]
               \o [i \in DOMAIN modified |-> <<modified[i][2], modified[i][1]>>]
               \o [i \in DOMAIN added |-> <<added[i], NULL>>]
           indices == Range(getIndices(table)) \cup {RowIdIndexName(table)}
       IN [s EXCEPT !.indexStore =
             [n \in IndexNames |->
                IF n \in indices
                  THEN IndexApplySnapshot(s.indexStore[n], n, snapshot)
                  ELSE s.indexStore[n]]]

RECURSIVE CacheRemoveAll(_, _)
CacheRemoveAll(c, rows) ==
  IF rows = <<>> THEN c ELSE CacheRemoveAll(Cache_remove(c, Head(rows).id), Tail(rows))

RECURSIVE CacheSetAll(_, _)
CacheSetAll(c, rows) ==
  IF rows = <<>> THEN c ELSE CacheSetAll(Cache_set(c, Head(rows)), Tail(rows))

updateCache_(s, diff) ==
  IF ~Running(s) THEN s
  ELSE LET modified == MapValues(diff.modified)
           c1 == CacheRemoveAll(s.cache, MapValues(diff.deleted))
           c2 == CacheSetAll(c1, MapValues(diff.added))
           c3 == CacheSetAll(c2, [i \in DOMAIN modified |-> modified[i][2]])
       IN [s EXCEPT !.cache = c3]

\* An applyTableDiff_ that stores the diff of the call as the accumulated
\* diff of the table, instead of merging it in.
applyTableDiff_replacing(s, table, diff) ==
  IF ~Running(s) THEN s
  ELSE LET s1 == updateTableIndices_(s, table, diff)
           s2 == updateCache_(s1, diff)
       IN [s2 EXCEPT
             !.tableDiffs = Diffs_set(s2.tableDiffs, table, diff),
             !.applied = diff]

applyTableDiff_(s, table, diff) ==
  IF ~Running(s) THEN s
  ELSE LET s1 == updateTableIndices_(s, table, diff)
           s2 == updateCache_(s1, diff)
           found == Diffs_get(s2.tableDiffs, table)
           accumulativeTableDiff == IF found = NULL THEN EmptyDiff ELSE found
       IN [s2 EXCEPT
             !.tableDiffs = Diffs_set(s2.tableDiffs, table,
                                      TableDiff_merge(accumulativeTableDiff, diff)),
             !.applied = diff]

\* An insert that applies its diff before it looks for the keys in the index.
insert_checkAfterApply(s, table, rows) ==
  LET s1 == checkScope_(s, table)
      s2 == checkPrimaryKeysUnique_(s1, table, rows)
      s3 == applyTableDiff_(s2, table, AddAll(EmptyDiff, rows))
  IN checkPrimaryKeyExistence_(s3, table, rows)

insert(s, table, rows) ==
  LET s1 == checkScope_(s, table)
      s2 == checkPrimaryKeysUnique_(s1, table, rows)
      s3 == checkPrimaryKeyExistence_(s2, table, rows)
      diff == AddAll(EmptyDiff, rows)
  IN applyTableDiff_(s3, table, diff)

\* An update diff whose old image is the new row.
UpdateDiff_oldIsNew(s, rows) ==
  ModifyAll(EmptyDiff, [i \in DOMAIN rows |-> <<rows[i], rows[i]>>])

\* The diff update builds: modify(image in the cache, row) per row.
UpdateDiff(s, rows) ==
  ModifyAll(EmptyDiff, [i \in DOMAIN rows |-> <<Cache_get(s.cache, rows[i].id), rows[i]>>])

update(s, table, rows) ==
  LET s1 == checkScope_(s, table)
      s2 == checkPrimaryKeyUpdate_(s1, table, rows)
  IN applyTableDiff_(s2, table, UpdateDiff(s2, rows))

RECURSIVE InsertOrReplaceDiff_keepRowId(_, _, _, _)
\* An insertOrReplace diff that leaves the new row its own row-id.
InsertOrReplaceDiff_keepRowId(s, table, rows, diff) ==
  IF rows = <<>> THEN diff
  ELSE LET row == Head(rows)
           existingRowId == findExistingRowIdInPkIndex_(s, table, row)
           next ==
             IF existingRowId # <<>>
               THEN TableDiff_modify(diff, Cache_get(s.cache, existingRowId[1]), row)
               ELSE TableDiff_add(diff, row)
       IN InsertOrReplaceDiff_keepRowId(s, table, Tail(rows), next)

RECURSIVE InsertOrReplaceDiff(_, _, _, _)
\* The diff insertOrReplace builds, row by row, against the PK index as it
\* is when the call starts.
InsertOrReplaceDiff(s, table, rows, diff) ==
  IF rows = <<>> THEN diff
  ELSE LET row == Head(rows)
           existingRowId == findExistingRowIdInPkIndex_(s, table, row)
           next ==
             IF existingRowId # <<>>
               THEN TableDiff_modify(diff, Cache_get(s.cache, existingRowId[1]),
                                     setRowId(row, existingRowId[1]))
               ELSE TableDiff_add(diff, row)
       IN InsertOrReplaceDiff(s, table, Tail(rows), next)

insertOrReplace(s, table, rows) ==
  LET s1 == checkScope_(s, table)
  IN IF ~Running(s1) THEN s1
     ELSE applyTableDiff_(s1, table, InsertOrReplaceDiff(s1, table, rows, EmptyDiff))

\* A remove that updates the indices and the cache itself and records
\* nothing in the accumulated diff.
remove_notAccumulating(s, table, rows) ==
  LET s1 == checkScope_(s, table)
      diff == DeleteAll(EmptyDiff, rows)
      s2 == updateCache_(updateTableIndices_(s1, table, diff), diff)
  IN IF ~Running(s2) THEN s2 ELSE [s2 EXCEPT !.applied = diff]

remove(s, table, rows) ==
  LET s1 == checkScope_(s, table)
  IN applyTableDiff_(s1, table, DeleteAll(EmptyDiff, rows))

\* goog.asserts.assert(!this.terminated_, ...), with assertions enabled: a
\* failed assertion throws.
assertNotTerminated(s) ==
  IF ~Running(s) THEN s
  ELSE IF s.terminated THEN Throw(s, "ASSERT")
  ELSE s

\* A commit that empties the accumulated diffs as it seals the journal.
commit_clearingDiffs(s) ==
  LET s1 == assertNotTerminated(s)
  IN IF ~Running(s1) THEN s1 ELSE [s1 EXCEPT !.terminated = TRUE, !.tableDiffs = <<>>]

\* A commit that does not seal the journal.
commit_notSealing(s) == assertNotTerminated(s)

commit(s) ==
  LET s1 == assertNotTerminated(s)
  IN IF ~Running(s1) THEN s1 ELSE [s1 EXCEPT !.terminated = TRUE]

RECURSIVE RollbackDiffs_cacheOnly(_, _)
\* A rollback that reverts the cache and leaves the indices.
RollbackDiffs_cacheOnly(s, diffs) ==
  IF diffs = <<>> THEN s
  ELSE RollbackDiffs_cacheOnly(
         updateCache_(s, TableDiff_getReverse(Head(diffs)[2])), Tail(diffs))

RECURSIVE RollbackDiffs(_, _)
\* The body of tableDiffs_.forEach in rollback, over the entries in order.
RollbackDiffs(s, diffs) ==
  IF diffs = <<>> THEN s
  ELSE LET tableSchema == Head(diffs)[1]
           reverseDiff == TableDiff_getReverse(Head(diffs)[2])
           s1 == updateTableIndices_(s, tableSchema, reverseDiff)
           s2 == updateCache_(s1, reverseDiff)
       IN RollbackDiffs(s2, Tail(diffs))

rollback(s) ==
  LET s1 == assertNotTerminated(s)
      s2 == IF ~Running(s1) THEN s1 ELSE RollbackDiffs(s1, s1.tableDiffs)
  IN IF ~Running(s2) THEN s2 ELSE [s2 EXCEPT !.terminated = TRUE]

(***************************************************************************)
(* Calls.  Each action is one call on journal j, run to its end.           *)
(***************************************************************************)
\* What a call on journal j starts from.
Enter(j) ==
  [cache |-> cache, indexStore |-> indexStore, scope |-> scope[j],
   tableDiffs |-> tableDiffs[j], terminated |-> terminated[j],
   exc |-> "none", applied |-> NULL]

\* No call is in progress: the caller has taken the outcome of the last one.
NoCall ==
  [journal |-> 0, op |-> "idle", table |-> "", rows |-> <<>>, exc |-> "none",
   applied |-> NULL]

Snapshot ==
  [cache |-> cache, indexStore |-> indexStore, tableDiffs |-> tableDiffs,
   terminated |-> terminated]

\* What a call on journal j leaves behind.  Calls are synchronous: one
\* starts only when the last one has returned.
Leave(j, op, table, rows, s) ==
  /\ call = NoCall
  /\ terminated[j] => late < MaxLate
  /\ late' = IF terminated[j] THEN late + 1 ELSE late
  /\ cache' = s.cache
  /\ indexStore' = s.indexStore
  /\ tableDiffs' = [tableDiffs EXCEPT ![j] = s.tableDiffs]
  /\ terminated' = [terminated EXCEPT ![j] = s.terminated]
  /\ pre' = Snapshot
  /\ call' = [journal |-> j, op |-> op, table |-> table, rows |-> rows,
              exc |-> s.exc, applied |-> s.applied]
  /\ UNCHANGED <<scope, cache0, indexStore0>>

\* The row-ids of the live rows of table t.
LiveIds(t) == {p[2] : p \in indexStore[RowIdIndexName(t)]}

\* New rows: payloads ps with the next row-ids.  Row-ids are never used
\* twice; rows of a refused batch never entered the store, and their
\* row-ids are handed out again.
NewRows(ps) == [i \in DOMAIN ps |-> MkRow(nextId + i - 1, ps[i])]

\* New images of the rows ids.
Images(ids, ps) == [i \in DOMAIN ids |-> MkRow(ids[i], ps[i])]

Insert(j, t, ps) ==
  LET rows == NewRows(ps)
      s == insert(Enter(j), t, rows)
  IN /\ nextId + Len(ps) - 1 <= MaxRowId
     /\ Leave(j, "insert", t, rows, s)
     /\ nextId' = IF Running(s) THEN nextId + Len(ps) ELSE nextId

InsertOrReplace(j, t, ps) ==
  LET rows == NewRows(ps)
      s == insertOrReplace(Enter(j), t, rows)
  IN /\ nextId + Len(ps) - 1 <= MaxRowId
     /\ Leave(j, "insertOrReplace", t, rows, s)
     /\ nextId' = IF Running(s) THEN nextId + Len(ps) ELSE nextId

Update(j, t, rows) ==
  /\ Leave(j, "update", t, rows, update(Enter(j), t, rows))
  /\ UNCHANGED nextId

Remove(j, t, rows) ==
  /\ Leave(j, "remove", t, rows, remove(Enter(j), t, rows))
  /\ UNCHANGED nextId

Commit(j) ==
  /\ Leave(j, "commit", "", <<>>, commit(Enter(j)))
  /\ UNCHANGED nextId

Rollback(j) ==
  /\ Leave(j, "rollback", "", <<>>, rollback(Enter(j)))
  /\ UNCHANGED nextId

\* The caller takes the outcome of the call (its return, or its exception).
Return ==
  /\ call # NoCall
  /\ call' = NoCall
  /\ pre' = Snapshot
  /\ UNCHANGED <<cache, indexStore, scope, tableDiffs, terminated, nextId,
                 cache0, indexStore0, late>>

(***************************************************************************)
(* The store a journal is created over: n rows of T1, 0 <= n <= MaxInit,   *)
(* with row-ids 1..n and pairwise different primary keys, and every index  *)
(* holding the keys of the rows of its table.  Keys and names are only     *)
(* ever compared for equality, so row i is given key i and the first name. *)
(***************************************************************************)
FirstName == "a"

SeedRows(n) == [i \in 1..n |-> MkRow(i, [pk |-> i, name |-> FirstName])]

\* The index named indexName over the rows of c, all rows of table t.
IndexOf(c, t, indexName) ==
  IF indexName[1] = t
    THEN {<<keyOfIndex(c[id], indexName), id>> : id \in DOMAIN c}
    ELSE {}

InitStore(n) ==
  /\ cache = SeedRows(n)
  /\ indexStore = [name \in IndexNames |-> IndexOf(SeedRows(n), "T1", name)]
  /\ nextId = n + 1

InitJournals(scopes) ==
  /\ scope = scopes
  /\ tableDiffs = [j \in DOMAIN scopes |-> <<>>]
  /\ terminated = [j \in DOMAIN scopes |-> FALSE]
  /\ cache0 = cache
  /\ indexStore0 = indexStore
  /\ late = 0
  /\ pre = Snapshot
  /\ call = NoCall

\* One journal with scope {T1}.
Init ==
  /\ \E n \in 0..MaxInit : n <= MaxKey /\ InitStore(n)
  /\ InitJournals([j \in {1} |-> {"T1"}])

(***************************************************************************)
(* The calls a transaction makes: new rows carry row-ids never used        *)
(* before, update and remove name distinct live rows of the table, and     *)
(* remove passes their images in the cache.                                *)
(***************************************************************************)
PayloadSeqs(t) == UNION {[1..n -> Payloads(t)] : n \in 0..MaxBatch}
\* The rows a query hands over come in row-id order.
LiveIdSeqs(t) ==
  {SetToSeq(ids) : ids \in {x \in SUBSET LiveIds(t) : Cardinality(x) <= MaxBatch}}

CallTables == {"T1", "T2"}

Next ==
  \/ \E j \in Journals : \E t \in CallTables : \E ps \in PayloadSeqs(t) :
       Insert(j, t, ps)
  \/ \E j \in Journals : \E t \in CallTables : \E ps \in PayloadSeqs(t) :
       InsertOrReplace(j, t, ps)
  \/ \E j \in Journals : \E t \in CallTables : \E ids \in LiveIdSeqs(t) :
       \E ps \in [DOMAIN ids -> Payloads(t)] : Update(j, t, Images(ids, ps))
  \/ \E j \in Journals : \E t \in CallTables : \E ids \in LiveIdSeqs(t) :
       Remove(j, t, [i \in DOMAIN ids |-> Cache_get(cache, ids[i])])
  \/ \E j \in Journals : Commit(j)
  \/ \E j \in Journals : Rollback(j)
  \/ Return

Spec == Init /\ [][Next]_vars

(***************************************************************************)
(* Queries between the mutating calls of a transaction: getIndexRange on   *)
(* the indices of T1 with integer keys, over at most MaxRanges ranges.     *)
(***************************************************************************)
GetIndexRange(j, indexName, keyRanges) ==
  /\ call = NoCall
  /\ pre' = Snapshot
  /\ call' = [journal |-> j, op |-> "getIndexRange", table |-> indexName[1],
              rows |-> <<>>, exc |-> "none", applied |-> NULL,
              index |-> indexName, keyRanges |-> keyRanges,
              result |-> getIndexRange(Enter(j), indexName, keyRanges)]
  /\ UNCHANGED <<cache, indexStore, scope, tableDiffs, terminated, nextId,
                 cache0, indexStore0, late>>

KeyRanges == {KeyRange(a, b) : a \in Keys, b \in Keys}
KeyRangeSeqs == UNION {[1..n -> KeyRanges] : n \in 0..MaxRanges}
QueryIndices == {<<"T1", "pk">>, RowIdIndexName("T1")}

NextQuery ==
  \/ \E j \in Journals : \E ps \in PayloadSeqs("T1") : Insert(j, "T1", ps)
  \/ \E j \in Journals : \E ps \in PayloadSeqs("T1") : InsertOrReplace(j, "T1", ps)
  \/ \E j \in Journals : \E ids \in LiveIdSeqs("T1") :
       \E ps \in [DOMAIN ids -> Payloads("T1")] : Update(j, "T1", Images(ids, ps))
  \/ \E j \in Journals : \E ids \in LiveIdSeqs("T1") :
       Remove(j, "T1", [i \in DOMAIN ids |-> Cache_get(cache, ids[i])])
  \/ \E j \in Journals : \E n \in QueryIndices : \E rs \in KeyRangeSeqs :
       GetIndexRange(j, n, rs)
  \/ Return

SpecQuery == Init /\ [][NextQuery]_vars

(***************************************************************************)
(* A journal over T3, the table without a primary key: the store holds n   *)
(* rows of T3 when the journal is created, 0 <= n <= MaxInit.              *)
(***************************************************************************)
SeedRowsNoPk(n) == [i \in 1..n |-> MkRow(i, [name |-> FirstName])]

InitNoPk ==
  /\ \E n \in 0..MaxInit :
       /\ cache = SeedRowsNoPk(n)
       /\ indexStore = [name \in IndexNames |-> IndexOf(SeedRowsNoPk(n), "T3", name)]
       /\ nextId = n + 1
  /\ InitJournals([j \in {1} |-> {"T3"}])

NextNoPk ==
  \/ \E j \in Journals : \E ps \in PayloadSeqs("T3") : Insert(j, "T3", ps)
  \/ \E j \in Journals : \E ps \in PayloadSeqs("T3") : InsertOrReplace(j, "T3", ps)
  \/ \E j \in Journals : \E ids \in LiveIdSeqs("T3") :
       \E ps \in [DOMAIN ids -> Payloads("T3")] : Update(j, "T3", Images(ids, ps))
  \/ \E j \in Journals : \E ids \in LiveIdSeqs("T3") :
       Remove(j, "T3", [i \in DOMAIN ids |-> Cache_get(cache, ids[i])])
  \/ \E j \in Journals : Commit(j)
  \/ \E j \in Journals : Rollback(j)
  \/ Return

SpecNoPk == InitNoPk /\ [][NextNoPk]_vars

(***************************************************************************)
(* Two journals over one row cache and one index store, journal 1 with     *)
(* scope {T1} and journal 2 with scope {T3}, created together over a store *)
(* that holds n rows of T1, 1 <= n < MaxInit, which leaves row-ids for the *)
(* rows both journals add.  Each calls on the tables of its scope; the     *)
(* calls of the two interleave freely.                                     *)
(***************************************************************************)
InitShared ==
  /\ \E n \in 1..(MaxInit - 1) : n <= MaxKey /\ InitStore(n)
  /\ InitJournals([j \in {1, 2} |-> IF j = 1 THEN {"T1"} ELSE {"T3"}])

NextShared ==
  \/ \E j \in Journals : \E t \in scope[j] : \E ps \in PayloadSeqs(t) :
       Insert(j, t, ps)
  \/ \E j \in Journals : \E t \in scope[j] : \E ps \in PayloadSeqs(t) :
       InsertOrReplace(j, t, ps)
  \/ \E j \in Journals : \E t \in scope[j] : \E ids \in LiveIdSeqs(t) :
       \E ps \in [DOMAIN ids -> Payloads(t)] : Update(j, t, Images(ids, ps))
  \/ \E j \in Journals : \E t \in scope[j] : \E ids \in LiveIdSeqs(t) :
       Remove(j, t, [i \in DOMAIN ids |-> Cache_get(cache, ids[i])])
  \/ \E j \in Journals : Commit(j)
  \/ \E j \in Journals : Rollback(j)
  \/ Return

SpecShared == InitShared /\ [][NextShared]_vars

(***************************************************************************)
(* A caller that also removes rows it has removed before: remove is handed *)
(* live rows of T1 and rows in the deleted collection of the journal's     *)
(* accumulated diff, with the image the journal last saw.                  *)
(***************************************************************************)
RemovedRows(j, t) ==
  LET found == Diffs_get(tableDiffs[j], t)
  IN IF found = NULL THEN EmptyMap ELSE found.deleted

KnownIdSeqs(j, t) ==
  {SetToSeq(ids) :
     ids \in {x \in SUBSET (LiveIds(t) \cup DOMAIN RemovedRows(j, t)) :
                Cardinality(x) <= MaxBatch}}

KnownImage(j, t, id) ==
  IF id \in LiveIds(t) THEN Cache_get(cache, id) ELSE RemovedRows(j, t)[id]

NextLoose ==
  \/ \E j \in Journals : \E ps \in PayloadSeqs("T1") : Insert(j, "T1", ps)
  \/ \E j \in Journals : \E ps \in PayloadSeqs("T1") : InsertOrReplace(j, "T1", ps)
  \/ \E j \in Journals : \E ids \in LiveIdSeqs("T1") :
       \E ps \in [DOMAIN ids -> Payloads("T1")] : Update(j, "T1", Images(ids, ps))
  \/ \E j \in Journals : \E ids \in KnownIdSeqs(j, "T1") :
       Remove(j, "T1", [i \in DOMAIN ids |-> KnownImage(j, "T1", ids[i])])
  \/ \E j \in Journals : Commit(j)
  \/ \E j \in Journals : Rollback(j)
  \/ Return

SpecLoose == Init /\ [][NextLoose]_vars

(***************************************************************************)
(* Vocabulary of the properties.                                           *)
(***************************************************************************)
MutatingOps == {"insert", "update", "insertOrReplace", "remove"}
TerminalOps == {"commit", "rollback"}

\* The journal's own validation errors.
ValidationErrors == {"SCOPE_ERROR", "CONSTRAINT"}

\* The last call was a mutating call on a table in its journal's scope that
\* declares a primary key.
OnPkTable(op) ==
  /\ call.op = op
  /\ call.table \in scope[call.journal]
  /\ getPrimaryKey(call.table) # <<>>

\* The PK index of the table of the last call, before and after the call.
PrePkIndex == pre.indexStore[getPrimaryKey(call.table)[1]]
PkIndex == indexStore[getPrimaryKey(call.table)[1]]

\* The row-ids under key k in an index.
IdsOf(index, k) == {p[2] : p \in {q \in index : q[1] = k}}

\* The accumulated diff of table t in the diffs of one journal.
DiffOf(diffs, t) == IF Diffs_get(diffs, t) = NULL THEN EmptyDiff ELSE Diffs_get(diffs, t)

\* C1: a mutating call that fails with SCOPE_ERROR or CONSTRAINT leaves the
\* row cache, every index and the accumulated diffs of every journal exactly
\* as they were before the call.
C1_FailedCallLeavesNoTrace ==
  (call.op \in MutatingOps /\ call.exc \in ValidationErrors)
    => /\ cache = pre.cache
       /\ indexStore = pre.indexStore
       /\ tableDiffs = pre.tableDiffs

\* An insert of two rows, the second one colliding with a row this journal
\* changed earlier, has failed with CONSTRAINT.
C1_Witness ==
  /\ call.op = "insert"
  /\ call.exc = "CONSTRAINT"
  /\ Len(call.rows) = 2
  /\ IdsOf(pre.indexStore[<<"T1", "pk">>], call.rows[1].pk) = {}
  /\ tableDiffs[call.journal] # <<>>

\* C2: a rollback of a live journal leaves the row cache and every index,
\* the row-id indices included, as they were when the journal was created,
\* whatever calls, successful or failed, came before.
C2_RollbackRestores ==
  (call.op = "rollback" /\ call.exc = "none")
    => /\ cache = cache0
       /\ indexStore = indexStore0

\* A rollback has undone a diff that held an added, a modified and a deleted
\* row.
C2_Witness ==
  /\ call.op = "rollback"
  /\ call.exc = "none"
  /\ \E i \in DOMAIN tableDiffs[call.journal] :
       LET d == tableDiffs[call.journal][i][2]
       IN /\ DOMAIN d.added # {}
          /\ DOMAIN d.deleted # {}
          /\ \E id \in DOMAIN d.modified : d.modified[id][1].pk # d.modified[id][2].pk

\* Two rows of the batch have the same primary key.
DuplicateInBatch(rows) ==
  \E i, k \in DOMAIN rows : i # k /\ rows[i].pk = rows[k].pk

\* Some row of the batch has a primary key that the PK index held when the
\* call started.
PresentInPkIndex(rows) ==
  \E i \in DOMAIN rows : IdsOf(PrePkIndex, rows[i].pk) # {}

\* C3: insert on an in-scope table with a primary key fails with CONSTRAINT
\* exactly when two rows of the batch share a primary key or the PK index,
\* in its state at the call, holds the primary key of some row; otherwise it
\* succeeds and every row is in the cache, the PK index and the row-id index.
C3_InsertConstraintIff ==
  OnPkTable("insert")
    => LET rows == call.rows
           rejected == DuplicateInBatch(rows) \/ PresentInPkIndex(rows)
       IN /\ (call.exc = "CONSTRAINT") <=> rejected
          /\ ~rejected =>
               /\ call.exc = "none"
               /\ \A i \in DOMAIN rows :
                    /\ Cache_get(cache, rows[i].id) = rows[i]
                    /\ <<rows[i].pk, rows[i].id>> \in PkIndex
                    /\ <<rows[i].id, rows[i].id>> \in indexStore[RowIdIndexName(call.table)]

\* An insert has succeeded with a primary key that a row held when the
\* journal was created (this journal removed that row), next to a row this
\* journal inserted earlier.
C3_Witness ==
  /\ OnPkTable("insert")
  /\ call.exc = "none"
  /\ \E i \in DOMAIN call.rows :
       IdsOf(indexStore0[<<"T1", "pk">>], call.rows[i].pk) # {}
  /\ \E id \in DOMAIN pre.cache : id \notin DOMAIN cache0

\* C4: in every reachable state the PK index of every table maps a key to at
\* most one row-id, and no two rows of a table in the cache share a primary
\* key.
C4_PrimaryKeyUnique ==
  \A t \in Tables :
    getPrimaryKey(t) # <<>> =>
      /\ \A p, q \in indexStore[getPrimaryKey(t)[1]] : p[1] = q[1] => p[2] = q[2]
      /\ \A p, q \in indexStore[RowIdIndexName(t)] :
           (p[2] # q[2] /\ p[2] \in DOMAIN cache /\ q[2] \in DOMAIN cache)
             => cache[p[2]].pk # cache[q[2]].pk

\* C5: every mutating call on a terminated journal is rejected and leaves the
\* cache, the indices and the accumulated diffs unchanged.
C5_TerminatedRejectsCalls ==
  (call.op \in MutatingOps /\ pre.terminated[call.journal])
    => /\ call.exc # "none"
       /\ cache = pre.cache
       /\ indexStore = pre.indexStore
       /\ tableDiffs = pre.tableDiffs

\* C6: terminated never returns to false; the first commit or rollback
\* succeeds and sets it; a commit or rollback on a terminated journal fails
\* its assertion and touches neither the cache nor the indices.
C6_OneTerminalCall ==
  /\ \A j \in Journals : pre.terminated[j] => terminated[j]
  /\ call.op \in TerminalOps =>
       IF pre.terminated[call.journal]
         THEN /\ call.exc = "ASSERT"
              /\ cache = pre.cache
              /\ indexStore = pre.indexStore
         ELSE /\ call.exc = "none"
              /\ terminated[call.journal]

\* A rollback has been refused on a committed journal whose changes (an
\* added row) are still in the cache.
C6_Witness ==
  /\ call.op = "rollback"
  /\ call.exc = "ASSERT"
  /\ pre.terminated[call.journal]
  /\ \E id \in DOMAIN cache : id \notin DOMAIN cache0

\* C7: every mutating call on a table outside the journal's scope fails with
\* SCOPE_ERROR, and the tables that carry an accumulated diff are tables of
\* the scope.
C7_ScopeEnforced ==
  /\ (call.op \in MutatingOps /\ call.table \notin scope[call.journal])
       => call.exc = "SCOPE_ERROR"
  /\ \A j \in Journals : Diffs_names(tableDiffs[j]) \subseteq scope[j]

\* An insert on a table outside the scope, with two rows of the same primary
\* key, has failed with SCOPE_ERROR.
C7_Witness ==
  /\ call.op = "insert"
  /\ call.table \notin scope[call.journal]
  /\ Len(call.rows) = 2
  /\ call.rows[1].pk = call.rows[2].pk
  /\ call.exc = "SCOPE_ERROR"

\* Row i of the update batch changes its primary key: its new image carries
\* another key than its image in the cache before the call.
ChangesPk(i) == call.rows[i].pk # pre.cache[call.rows[i].id].pk

\* Another existing row held the new key of row i of the batch when the call
\* started.
HeldByOther(i) == IdsOf(PrePkIndex, call.rows[i].pk) \ {call.rows[i].id} # {}

PkChangers == {i \in DOMAIN call.rows : ChangesPk(i)}

NoPkChange ==
  \A i \in DOMAIN call.rows :
    Index_get(PrePkIndex, call.rows[i].pk) # <<>>
      /\ Index_get(PrePkIndex, call.rows[i].pk)[1] = call.rows[i].id

\* C9: an update on an in-scope table with a primary key in which no row
\* changes its primary key does not fail; it records modify(image in the
\* cache before the call, new image) for every row, and afterwards the cache
\* holds the new image of every row.
C9_UpdateKeepingKeys ==
  (OnPkTable("update") /\ NoPkChange)
    => /\ call.exc = "none"
       /\ DOMAIN call.applied.modified = {call.rows[i].id : i \in DOMAIN call.rows}
       /\ DOMAIN call.applied.added = {}
       /\ DOMAIN call.applied.deleted = {}
       /\ \A i \in DOMAIN call.rows :
            /\ call.applied.modified[call.rows[i].id]
                 = <<pre.cache[call.rows[i].id], call.rows[i]>>
            /\ Cache_get(cache, call.rows[i].id) = call.rows[i]

\* An update of two rows, both keeping their keys and both changing their
\* names, has succeeded.
C9_Witness ==
  /\ OnPkTable("update")
  /\ NoPkChange
  /\ Len(call.rows) = 2
  /\ \A i \in DOMAIN call.rows : call.rows[i] # pre.cache[call.rows[i].id]
  /\ call.exc = "none"

\* The last row of the batch with the primary key of row i.
LastWithKeyOf(i) ==
  call.rows[CHOOSE k \in DOMAIN call.rows :
              /\ call.rows[k].pk = call.rows[i].pk
              /\ \A m \in DOMAIN call.rows : call.rows[m].pk = call.rows[i].pk => m <= k]

\* The scenario of C10: the journal has not touched the table, the batch is
\* two rows, the first with the key of a row that was there when the journal
\* was created, the second with a key no row holds.
ReplaceOneAddOne ==
  /\ OnPkTable("insertOrReplace")
  /\ DiffOf(pre.tableDiffs[call.journal], call.table) = EmptyDiff
  /\ Len(call.rows) = 2
  /\ IdsOf(PrePkIndex, call.rows[1].pk) # {}
  /\ IdsOf(PrePkIndex, call.rows[2].pk) = {}
  /\ call.rows[1].pk # call.rows[2].pk

\* C10: insertOrReplace dispatches each row on the PK index as it is when the
\* call starts: a row whose key an existing row holds is recorded as
\* modify(existing image, new image under the existing row-id), any other row
\* as add.  With a pre-journal row of key k1, insertOrReplace of rows with
\* keys k1 and k3 (absent) leaves both new images in the cache, exactly one
\* modified entry (the existing row-id) and one added entry in the
\* accumulated diff, and deletes no row.
C10_InsertOrReplaceDispatch ==
  OnPkTable("insertOrReplace")
    => /\ call.exc = "none"
       /\ \A i \in DOMAIN call.rows :
            LET held == Index_get(PrePkIndex, call.rows[i].pk)
            IN IF held # <<>>
                 THEN /\ held[1] \in DOMAIN call.applied.modified
                      /\ call.applied.modified[held[1]]
                           = <<pre.cache[held[1]], setRowId(LastWithKeyOf(i), held[1])>>
                 ELSE /\ call.rows[i].id \in DOMAIN call.applied.added
                      /\ call.applied.added[call.rows[i].id] = call.rows[i]
       /\ ReplaceOneAddOne =>
            LET existing == Index_get(PrePkIndex, call.rows[1].pk)[1]
                acc == DiffOf(tableDiffs[call.journal], call.table)
            IN /\ Cache_get(cache, existing) = setRowId(call.rows[1], existing)
               /\ Cache_get(cache, call.rows[2].id) = call.rows[2]
               /\ DOMAIN acc.modified = {existing}
               /\ DOMAIN acc.added = {call.rows[2].id}
               /\ DOMAIN acc.deleted = {}
               /\ DOMAIN pre.cache \subseteq DOMAIN cache

\* insertOrReplace has replaced a pre-journal row by a new image and added a
\* row with a new key, in one call.
C10_Witness ==
  /\ ReplaceOneAddOne
  /\ call.exc = "none"
  /\ call.rows[1].name # pre.cache[Index_get(PrePkIndex, call.rows[1].pk)[1]].name

(***************************************************************************)
(* The accumulated diff against the store.                                 *)
(***************************************************************************)
\* The row-ids of the rows of table t when the journals were created.
LiveIds0(t) == {p[2] : p \in indexStore0[RowIdIndexName(t)]}

\* Row-id id occurs in some index of table t.
Indexed(t, id) ==
  \E n \in Range(getIndices(t)) \cup {RowIdIndexName(t)} :
    \E p \in indexStore[n] : p[2] = id

\* The collections of diff d that hold row-id id.
HeldIn(d, id) ==
  {c \in {"added", "modified", "deleted"} : id \in DOMAIN d[c]}

\* C11: the accumulated diff of a live journal collapses the calls on a row
\* by the merge table.  A row the journal inserted and removed again is in
\* none of added, modified, deleted, and in no index; a row it inserted (and
\* maybe updated) is in added only, with its latest image; a pre-journal row
\* it updated is in modified only, as (pre-journal image, latest image), and
\* an update of a pre-journal row always leaves such an entry; a pre-journal
\* row it (updated and) removed is in deleted only, with its pre-journal
\* image.
C11_MergeCollapses ==
  /\ \A j \in Journals : \A t \in scope[j] : \A id \in RowIds :
       ~terminated[j] =>
         LET acc == DiffOf(tableDiffs[j], t)
             was == id \in LiveIds0(t)
             is == id \in LiveIds(t)
         IN /\ (~was /\ ~is) => (HeldIn(acc, id) = {} /\ ~Indexed(t, id))
            /\ (~was /\ is) =>
                 (HeldIn(acc, id) = {"added"} /\ acc.added[id] = Cache_get(cache, id))
            /\ (was /\ is) =>
                 IF HeldIn(acc, id) = {}
                   THEN Cache_get(cache, id) = cache0[id]
                   ELSE /\ HeldIn(acc, id) = {"modified"}
                        /\ acc.modified[id] = <<cache0[id], Cache_get(cache, id)>>
            /\ (was /\ ~is) =>
                 (HeldIn(acc, id) = {"deleted"} /\ acc.deleted[id] = cache0[id])
  /\ (call.op = "update" /\ call.exc = "none" /\ ~terminated[call.journal]) =>
       \A i \in DOMAIN call.rows :
         call.rows[i].id \in LiveIds0(call.table) =>
           DiffOf(tableDiffs[call.journal], call.table).modified[call.rows[i].id]
             = <<cache0[call.rows[i].id], call.rows[i]>>

\* A live journal has removed a pre-journal row that it had updated before,
\* after it inserted a row and removed it again, and while a row it inserted
\* and then updated is in the table.
C11_Witness ==
  /\ call.op = "remove"
  /\ call.exc = "none"
  /\ ~terminated[call.journal]
  /\ \E i \in DOMAIN call.rows :
       /\ call.rows[i].id \in DOMAIN DiffOf(pre.tableDiffs[call.journal], call.table).modified
       /\ call.rows[i] # cache0[call.rows[i].id]
  /\ \E id \in 1..(nextId - 1) : id \notin DOMAIN cache0 /\ id \notin DOMAIN cache
  /\ \E id \in DOMAIN cache :
       /\ id \notin DOMAIN cache0
       /\ MkRow(id, [pk |-> cache[id].pk, name |-> FirstName]) # cache[id]

\* The live rows of table t whose key in the index named n lies in one of
\* the ranges.
RowsInRanges(t, n, keyRanges) ==
  {id \in LiveIds(t) :
     \E i \in DOMAIN keyRanges : InKeyRange(keyOfIndex(cache[id], n), keyRanges[i])}

\* C12: getIndexRange returns the set union of index.getRange(r) over the
\* ranges r, every row-id once, on the index as the journal's calls have left
\* it: the row-ids of the live rows of the table whose key lies in a range.
C12_IndexRangeIsUnion ==
  call.op = "getIndexRange"
    => /\ Range(call.result)
            = UNION {Range(Index_getRangeIn(indexStore[call.index], call.keyRanges[i])) :
                       i \in DOMAIN call.keyRanges}
       /\ Cardinality(Range(call.result)) = Len(call.result)
       /\ Range(call.result) = RowsInRanges(call.table, call.index, call.keyRanges)

\* getIndexRange over two overlapping ranges of the PK index has returned a
\* row that this journal inserted and that lies in both, and not the
\* pre-journal row that this journal removed and whose key lies in a range.
C12_Witness ==
  /\ call.op = "getIndexRange"
  /\ call.index = <<"T1", "pk">>
  /\ Len(call.keyRanges) = 2
  /\ \E id \in Range(call.result) :
       /\ id \notin DOMAIN cache0
       /\ \A i \in DOMAIN call.keyRanges : InKeyRange(cache[id].pk, call.keyRanges[i])
  /\ \E id \in DOMAIN cache0 :
       /\ id \notin DOMAIN cache
       /\ \E i \in DOMAIN call.keyRanges : InKeyRange(cache0[id].pk, call.keyRanges[i])
       /\ id \notin Range(call.result)

C14_NoConstraintWithoutPk ==
  (call.op \in MutatingOps
     /\ call.table \in scope[call.journal]
     /\ getPrimaryKey(call.table) = <<>>)
    => call.exc # "CONSTRAINT"

RECURSIVE ReplayDiffs(_, _)
\* The per-table diffs applied one after the other as applyTableDiff_
\* applies a diff: the indices of the table first, then the cache.
ReplayDiffs(s, diffs) ==
  IF diffs = <<>> THEN s
  ELSE LET s1 == updateTableIndices_(s, Head(diffs)[1], Head(diffs)[2])
       IN ReplayDiffs(updateCache_(s1, Head(diffs)[2]), Tail(diffs))

\* The store as it was when the journals were created, with the accumulated
\* diffs of journal j applied to it once.
Replayed(j) ==
  ReplayDiffs([Enter(j) EXCEPT !.cache = cache0, !.indexStore = indexStore0],
              getDiff(Enter(j)))

\* Journal j has run no rollback: it is live, or it has just committed.
NotRolledBack(j) ==
  ~terminated[j] \/ (call.journal = j /\ call.op = "commit" /\ call.exc = "none")

\* C15: after any sequence of insert, update, insertOrReplace and remove
\* calls, successful or refused, on a journal that has not rolled back, the
\* accumulated diffs applied once (indices, then cache) to the cache and the
\* indices of the journal's creation give the current cache and indices.
C15_ReplayEquivalence ==
  \A j \in Journals :
    NotRolledBack(j)
      => /\ Replayed(j).cache = cache
         /\ Replayed(j).indexStore = indexStore

\* A remove has succeeded on a live journal whose accumulated diff then
\* holds an added row, a deleted row and a modified row that changed its
\* primary key.
C15_Witness ==
  /\ call.op = "remove"
  /\ call.exc = "none"
  /\ call.rows # <<>>
  /\ ~terminated[call.journal]
  /\ LET d == DiffOf(tableDiffs[call.journal], "T1")
     IN /\ DOMAIN d.added # {}
        /\ DOMAIN d.deleted # {}
        /\ \E id \in DOMAIN d.modified : d.modified[id][1].pk # d.modified[id][2].pk

\* C16: in every reachable state, in every accumulated diff, no row-id is in
\* two of added, modified and deleted, every added and deleted row is keyed
\* by its row-id, and every modified entry under row-id k has an old and a
\* new image with row-id k.
C16_DiffWellFormed ==
  \A j \in Journals : \A i \in DOMAIN tableDiffs[j] :
    LET d == tableDiffs[j][i][2]
    IN /\ DOMAIN d.added \cap DOMAIN d.modified = {}
       /\ DOMAIN d.added \cap DOMAIN d.deleted = {}
       /\ DOMAIN d.modified \cap DOMAIN d.deleted = {}
       /\ \A k \in DOMAIN d.modified :
            d.modified[k][1].id = k /\ d.modified[k][2].id = k
       /\ \A k \in DOMAIN d.added : d.added[k].id = k
       /\ \A k \in DOMAIN d.deleted : d.deleted[k].id = k

\* An insertOrReplace has replaced, under its row-id, a pre-journal row that
\* this journal had modified before, and has added a row.
C16_Witness ==
  /\ call.op = "insertOrReplace"
  /\ call.exc = "none"
  /\ \E k \in DOMAIN call.applied.modified :
       /\ \A i \in DOMAIN call.rows : call.rows[i].id # k
       /\ k \in DOMAIN DiffOf(pre.tableDiffs[call.journal], call.table).modified
       /\ k \in DOMAIN DiffOf(tableDiffs[call.journal], call.table).modified
  /\ DOMAIN call.applied.added # {}

\* The columns of the rows of table t, the row-id included.
RowFields(t) == UNION {DOMAIN MkRow(1, p) : p \in Payloads(t)}

\* The row-ids of the rows of table t in cache c.
RowsOf(c, t) == {id \in DOMAIN c : DOMAIN c[id] = RowFields(t)}

\* Every index of table t, the row-id index included, holds exactly the
\* (key, row-id) pairs of the rows of t in the cache.
LockStep(t) ==
  \A n \in Range(getIndices(t)) \cup {RowIdIndexName(t)} :
    indexStore[n] = {<<keyOfIndex(cache[id], n), id>> : id \in RowsOf(cache, t)}

\* C17: the cache and the indices stay in lock-step.  They are when the
\* journal is created, and so they are in every state after: every index of
\* every table holds exactly the pairs projected from the rows of the table
\* in the cache, and getTableRows(tableName) without row-ids returns exactly
\* those rows, each once and none of them null.
C17_LockStep ==
  \A t \in Tables :
    /\ LockStep(t)
    /\ \A j \in Journals :
         LET rows == getTableRows(Enter(j), t)
         IN /\ NULL \notin Range(rows)
            /\ Range(rows) = {cache[id] : id \in RowsOf(cache, t)}
            /\ Len(rows) = Cardinality(RowsOf(cache, t))

\* An update has changed the primary key and the name of a row, in a table
\* from which this journal has removed a pre-journal row and to which it has
\* added a row.
C17_Witness ==
  /\ call.op = "update"
  /\ call.exc = "none"
  /\ \E i \in DOMAIN call.rows :
       /\ call.rows[i].pk # pre.cache[call.rows[i].id].pk
       /\ call.rows[i].name # pre.cache[call.rows[i].id].name
  /\ \E id \in DOMAIN cache0 : id \notin DOMAIN cache
  /\ \E id \in DOMAIN cache : id \notin DOMAIN cache0
  /\ Len(getTableRows(Enter(call.journal), call.table)) >= 2

\* The rows and the indices of table t are in the store as they are in the
\* store (c, ix).
TableAsIn(t, c, ix) ==
  /\ RowsOf(cache, t) = RowsOf(c, t)
  /\ \A id \in RowsOf(c, t) : cache[id] = c[id]
  /\ \A n \in Range(getIndices(t)) \cup {RowIdIndexName(t)} : indexStore[n] = ix[n]

\* C18: with two journals of disjoint scopes over one cache and one index
\* store, whose calls interleave in any order, every call of a journal,
\* rollback included, leaves the rows and the indices of the tables outside
\* its scope as they were before the call; and a rollback of one journal
\* puts the tables of its scope back as they were when the journals were
\* created.
C18_DisjointScopesIsolated ==
  call.op \in MutatingOps \cup TerminalOps
    => /\ \A t \in Tables \ scope[call.journal] :
            TableAsIn(t, pre.cache, pre.indexStore)
       /\ (call.op = "rollback" /\ call.exc = "none")
            => \A t \in scope[call.journal] : TableAsIn(t, cache0, indexStore0)

\* One journal has rolled back its changes (a removed row, and a modified
\* or second removed row) while the store holds a row the other journal
\* added to its own table, which is still there.
C18_Witness ==
  /\ call.op = "rollback"
  /\ call.exc = "none"
  /\ Cardinality(Journals) = 2
  /\ \E t \in scope[call.journal] : ~(RowsOf(pre.cache, t) = RowsOf(cache0, t))
  /\ \E j \in Journals \ {call.journal} : \E t \in scope[j] :
       /\ RowsOf(cache, t) # RowsOf(cache0, t)
       /\ DiffOf(tableDiffs[j], t) # EmptyDiff
       /\ ~terminated[j]

\* C19: no call drives an accumulated diff into a case that the merge table
\* marks invalid: no accumulated diff of any journal has ever met an add
\* onto an added or modified row-id, or a modify or delete onto a deleted
\* row-id.
C19_NoInvalidMerge ==
  \A j \in Journals : \A i \in DOMAIN tableDiffs[j] : ~tableDiffs[j][i][2].invalid

====
